---- MODULE Spec2Model ----
(***************************************************************************)
(* Model of the gowatch supervision engine, package watcher               *)
(* (src/watcher/watcher.go): Run's pre-flight, watch registration, the    *)
(* initial build/start, the control loop of watcher.watch with restart,   *)
(* stop, build and startBinary, the exit-waiter goroutine of each child,  *)
(* the context watcher that os/exec starts for every exec.CommandContext  *)
(* command, and the fsnotify subscription; and of the file resolver        *)
(* getFiles of the command (src/main.go), a pure function of a directory   *)
(* tree.                                                                    *)
(***************************************************************************)
EXTENDS Integers, Sequences, FiniteSets, TLC

(* ---------------------------- bounds ---------------------------------- *)
\* file-change events the subscription delivers in one session
MaxEvents == 2
\* subscription errors the subscription delivers in one session
MaxErrs == 1
\* paths in the watch set
NumFiles == 2
\* build flags in a configuration (pre-flight specification)
MaxFlags == 2
\* depth of the directory tree below the watch root (resolver specification)
MaxDepth == 3
\* entries in the directory tree (resolver specification)
MaxEntries == 3

\* one child for the initial start and at most one per change event
Procs == 1 .. (MaxEvents + 1)

(* ---------------------------- state ----------------------------------- *)
VARIABLES
    pc,          \* position of the control goroutine (Run / watch / stop / build)
    ret,         \* error value returned by Run, kind "none" while it runs
    buildFlags,  \* Config.BuildFlags
    printFiles,  \* Config.PrintFiles
    added,       \* number of paths registered with watcher.Add
    watcherOpen, \* the fsnotify watcher exists and is not closed
    tmpdir,      \* the temporary build directory exists
    err,         \* the variable err of watcher.watch
    caller,      \* who called w.start: "init" (watch) or "restart"
    cmd,         \* w.cmd: 0 is nil, otherwise the child of that handle
    exitChan,    \* w.exitChan, capacity 1, of [pid, err]
    proc,        \* per child: "none", "running", "exited", "waited", "sent", "consumed"
    honours,     \* per child: it exits when it receives an interrupt
    status,      \* per child: exit status, "none", "ok" or "fail"
    spont,       \* per child: it exited before any interrupt was sent to it
    stopSigs,    \* per child: interrupts sent to it by watcher.stop
    ctxSig,      \* per child: cmd.Cancel ran for it (interrupt on cancellation)
    waitErr,     \* per child: the error cmd.Wait returned
    exitCb,      \* per child: OnProcessExit calls made with its exit result
    cancelled,   \* ctx.Done() is closed
    events,      \* pending fsnotify events, "write" or "other"
    errs,        \* pending fsnotify errors
    produced,    \* events delivered so far by the subscription
    producedErrs,\* errors delivered so far by the subscription
    buildKilled, \* the running go build was killed by its context watcher
    builds,      \* go build commands begun
    writesTaken, \* write events taken by the control loop
    onStart,     \* OnProcessStart calls
    onExit,      \* OnProcessExit calls
    onChange,    \* OnFileChange calls
    tree,        \* resolver: the entries below the watch root, as relative paths
    root,        \* resolver: the watch root handed to getFiles
    vendor,      \* resolver: the argument vendor of getFiles
    goFiles,     \* resolver: the argument goFiles of getFiles
    files,       \* resolver: the paths getFiles returned
    resolved     \* resolver: getFiles has returned

vars == << pc, ret, buildFlags, printFiles, added, watcherOpen, tmpdir, err,
           caller, cmd, exitChan, proc, honours, status, spont, stopSigs,
           ctxSig, waitErr, exitCb, cancelled, events, errs, produced,
           producedErrs, buildKilled, builds, writesTaken, onStart, onExit,
           onChange, tree, root, vendor, goFiles, files, resolved >>

\* the state of the file resolver; package watcher never touches it
resolverVars == << tree, root, vendor, goFiles, files, resolved >>
\* what Run and its goroutines never change
cfgVars == << buildFlags, printFiles, resolverVars >>
procVars == << proc, honours, status, spont, stopSigs, ctxSig, waitErr >>
envVars == << events, errs, produced, producedErrs >>
cbVars == << onStart, onExit, onChange, exitCb >>

(* ---------------------------- errors ---------------------------------- *)
\* An error value: its kind, and whether errors.Is(e, ctx.Err()) holds.
Err(k, c) == [kind |-> k, ctx |-> c]
NoReturn == Err("none", FALSE)
Nil == Err("nil", FALSE)
CtxErr == Err("ctx", TRUE)

\* errors.Join(<-w.exitChan, ctx.Err())
Join(e, c) == Err("join", e.ctx \/ c.ctx)

\* fmt.Errorf("...: %w", e) keeps the chain, "%v" drops it
Wrapw(k, e) == Err(k, e.ctx)
Wrapv(k, e) == Err(k, FALSE)

(* ---------------------------- build flags ----------------------------- *)
\* a flag is a sequence of characters
HasPrefix(s, p) == Len(s) >= Len(p) /\ SubSeq(s, 1, Len(p)) = p

isOutputFlagNoEq(f) ==
    \/ f = << "-", "o" >>
    \/ f = << "-", "-", "o" >>

isOutputFlag(f) ==
    \/ f = << "-", "o" >>
    \/ f = << "-", "-", "o" >>
    \/ HasPrefix(f, << "-", "o", "=" >>)
    \/ HasPrefix(f, << "-", "-", "o", "=" >>)

Flags == { << "-", "o" >>, << "-", "-", "o" >>,
           << "-", "o", "=", "f" >>, << "-", "-", "o", "=", "f" >>,
           << "-", "o", "f" >>, << "-", "v" >>, << "o", "=" >>,
           << "-", "-", "o", "f" >> }

SeqsUpTo(S, n) == UNION { [1 .. k -> S] : k \in 0 .. n }

\* for _, a := range c.BuildFlags { if isOutputFlag(a) { return error } }
HasOutputFlag(fl) == \E i \in 1 .. Len(fl) : isOutputFlag(fl[i])

(* ---------------------------- file resolver --------------------------- *)
\* A file name is a sequence of characters, a path a sequence of names.
DirNames == { << "v", "e", "n", "d", "o", "r" >>,
              << ".", "g", "i", "t" >>,
              << "p", "k", "g" >> }
FileNames == { << "a", ".", "g", "o" >>,
               << ".", "h", ".", "g", "o" >>,
               << "b", ".", "t", "x", "t" >> }
Names == DirNames \cup FileNames

\* a relative and an absolute watch root
RelRoot == << << "." >> >>
AbsRoot == << << "/", "w" >> >>
Roots == { RelRoot, AbsRoot }

\* df.IsDir()
IsDir(n) == n \in DirNames

\* filepath.Ext: the suffix of the name that begins at its last dot
Ext(n) ==
    LET dots == { i \in 1 .. Len(n) : n[i] = "." } IN
      IF dots = { } THEN << >>
      ELSE SubSeq(n, CHOOSE i \in dots : \A j \in dots : j <= i, Len(n))

\* filepath.Join(dir, name): the joined path is cleaned, "./x" becomes "x"
PathJoin(dir, n) == IF dir = RelRoot THEN << n >> ELSE Append(dir, n)

\* os.ReadDir: the names of the entries of the directory at rel
ReadDir(rel) ==
    { p[Len(p)] : p \in { q \in tree : /\ Len(q) = Len(rel) + 1
                                        /\ SubSeq(q, 1, Len(rel)) = rel } }

\* getFiles for one directory: dir is the path the code holds, rel the
\* same directory relative to the watch root.  The order of the returned
\* slice is dropped.
RECURSIVE getFiles(_, _)
getFiles(dir, rel) ==
    IF ~vendor /\ dir = << << "v", "e", "n", "d", "o", "r" >> >>
       THEN { }
       ELSE UNION { IF entryName = << ".", "g", "i", "t" >> THEN { }
                    ELSE IF IsDir(entryName)
                            THEN getFiles(PathJoin(dir, entryName),
                                          Append(rel, entryName))
                    ELSE IF goFiles /\ Ext(entryName) # << ".", "g", "o" >>
                            THEN { }
                    ELSE { PathJoin(dir, entryName) }
                  : entryName \in ReadDir(rel) }

\* the resolver before its call, with its arguments drawn from the given sets
ResolverInit(roots, flags) ==
    /\ tree = { }
    /\ root \in roots
    /\ vendor \in flags
    /\ goFiles \in flags
    /\ files = { }
    /\ resolved = FALSE

(* ---------------------------- initial state --------------------------- *)
InitOf(flagLists, roots, flags) ==
    /\ ResolverInit(roots, flags)
    /\ pc = "check_flags"
    /\ ret = NoReturn
    /\ buildFlags \in flagLists
    /\ printFiles \in BOOLEAN
    /\ added = 0
    /\ watcherOpen = FALSE
    /\ tmpdir = FALSE
    /\ err = Nil
    /\ caller = "init"
    /\ cmd = 0
    /\ exitChan = << >>
    /\ proc = [p \in Procs |-> "none"]
    /\ honours = [p \in Procs |-> FALSE]
    /\ status = [p \in Procs |-> "none"]
    /\ spont = [p \in Procs |-> FALSE]
    /\ stopSigs = [p \in Procs |-> 0]
    /\ ctxSig = [p \in Procs |-> FALSE]
    /\ waitErr = [p \in Procs |-> Nil]
    /\ exitCb = [p \in Procs |-> 0]
    /\ cancelled = FALSE
    /\ events = << >>
    /\ errs = 0
    /\ produced = 0
    /\ producedErrs = 0
    /\ buildKilled = FALSE
    /\ builds = 0
    /\ writesTaken = 0
    /\ onStart = 0
    /\ onExit = 0
    /\ onChange = 0

InitWith(flagLists) == InitOf(flagLists, { RelRoot }, { FALSE })

Init == InitWith({ << >>, << << "-", "o" >> >> })

InitFiles == InitOf({ << >> }, Roots, BOOLEAN)

InitFlags == InitWith(SeqsUpTo(Flags, MaxFlags))

(* ---------------------------- Run: pre-flight ------------------------- *)
\* Run returns e: the deferred os.RemoveAll and watcher.Close have run
Return(e) ==
    /\ pc' = "done"
    /\ ret' = e
    /\ watcherOpen' = FALSE
    /\ tmpdir' = FALSE

RunCheckFlags ==
    /\ pc = "check_flags"
    /\ IF HasOutputFlag(buildFlags)
          THEN Return(Err("ConfigError", FALSE))
          ELSE /\ pc' = "resolve"
               /\ UNCHANGED << ret, watcherOpen, tmpdir >>
    /\ UNCHANGED << cfgVars, added, err, caller, cmd, exitChan, procVars,
                    cancelled, envVars, buildKilled, builds, writesTaken,
                    cbVars >>

\* filepath.Glob, os.Getwd and listGoFiles, each of which may fail
RunResolveFiles ==
    /\ pc = "resolve"
    /\ \/ \E k \in { "GlobError", "GetwdError", "ListGoFilesError" } :
             Return(Err(k, FALSE))
       \/ /\ pc' = "print_files"
          /\ UNCHANGED << ret, watcherOpen, tmpdir >>
    /\ UNCHANGED << cfgVars, added, err, caller, cmd, exitChan, procVars,
                    cancelled, envVars, buildKilled, builds, writesTaken,
                    cbVars >>

RunPrintFiles ==
    /\ pc = "print_files"
    /\ IF printFiles
          THEN Return(Nil)
          ELSE /\ pc' = "mkdir_temp"
               /\ UNCHANGED << ret, watcherOpen, tmpdir >>
    /\ UNCHANGED << cfgVars, added, err, caller, cmd, exitChan, procVars,
                    cancelled, envVars, buildKilled, builds, writesTaken,
                    cbVars >>

RunMkdirTemp ==
    /\ pc = "mkdir_temp"
    /\ \/ Return(Err("MkdirTempError", FALSE))
       \/ /\ pc' = "new_watcher"
          /\ tmpdir' = TRUE
          /\ UNCHANGED << ret, watcherOpen >>
    /\ UNCHANGED << cfgVars, added, err, caller, cmd, exitChan, procVars,
                    cancelled, envVars, buildKilled, builds, writesTaken,
                    cbVars >>

(* ---------------------------- watch: registration --------------------- *)
watchNewWatcher ==
    /\ pc = "new_watcher"
    /\ \/ Return(Err("NewWatcherError", FALSE))
       \/ /\ pc' = "watch_add"
          /\ watcherOpen' = TRUE
          /\ UNCHANGED << ret, tmpdir >>
    /\ UNCHANGED << cfgVars, added, err, caller, cmd, exitChan, procVars,
                    cancelled, envVars, buildKilled, builds, writesTaken,
                    cbVars >>

\* one iteration of: for _, f := range files { err = watcher.Add(f) ... }
watchAdd ==
    /\ pc = "watch_add"
    /\ added < NumFiles
    /\ \/ /\ Return(Err("WatchAddError", FALSE))
          /\ UNCHANGED added
       \/ /\ added' = added + 1
          /\ UNCHANGED << pc, ret, watcherOpen, tmpdir >>
    /\ UNCHANGED << cfgVars, err, caller, cmd, exitChan, procVars,
                    cancelled, envVars, buildKilled, builds, writesTaken,
                    cbVars >>

(* ---------------------------- start / build --------------------------- *)
\* The smallest child identifier not used yet
NextPid == CHOOSE p \in Procs : proc[p] = "none" /\ \A q \in Procs : q < p => proc[q] # "none"

\* w.start returned e to its caller c: watch keeps it in err and reports a
\* failure (lines 127-131); the Events case reports restart's error (144-148).
\* Either way the control goroutine is then at the select of the loop.
StartReturns(c, e) ==
    /\ pc' = "select"
    /\ err' = IF c = "init" THEN e ELSE err
    /\ onExit' = IF e # Nil THEN onExit + 1 ELSE onExit

\* a start whose build command is not bound to ctx (exec.Command)
StartBeginsNoCtx(c) ==
    /\ builds' = builds + 1
    /\ buildKilled' = FALSE
    /\ caller' = c
    /\ pc' = "building"
    /\ UNCHANGED << err, onExit >>

\* w.start(ctx) begins: w.build runs `go build` under exec.CommandContext.
\* cmd.Start refuses to spawn when ctx is already done.
StartBegins(c) ==
    /\ builds' = builds + 1
    /\ buildKilled' = FALSE
    /\ caller' = c
    /\ IF cancelled
          THEN StartReturns(c, IF c = "init" THEN Err("build", TRUE)
                                             ELSE Wrapv("start", Err("build", TRUE)))
          ELSE /\ pc' = "building"
               /\ UNCHANGED << err, onExit >>

\* an initial start that does not wait for the registration to complete
watchInitialStartEarly ==
    /\ pc = "watch_add"
    /\ StartBegins("init")
    /\ UNCHANGED << ret, cfgVars, added, watcherOpen, tmpdir, cmd, exitChan,
                    procVars, cancelled, envVars, writesTaken, onStart,
                    onChange, exitCb >>

\* a watch that enters the loop without the initial start
watchInitialStartSkipped ==
    /\ pc = "watch_add"
    /\ added = NumFiles
    /\ pc' = "select"
    /\ UNCHANGED << ret, cfgVars, added, watcherOpen, tmpdir, err, caller, cmd,
                    exitChan, procVars, cancelled, envVars, buildKilled,
                    builds, writesTaken, cbVars >>

\* watch, line 127: every path is registered, the initial w.start is called
watchInitialStart ==
    /\ pc = "watch_add"
    /\ added = NumFiles
    /\ StartBegins("init")
    /\ UNCHANGED << ret, cfgVars, added, watcherOpen, tmpdir, cmd, exitChan,
                    procVars, cancelled, envVars, writesTaken, onStart,
                    onChange, exitCb >>

\* the context watcher of the build command kills `go build` on cancellation
ctxKillBuild ==
    /\ pc = "building"
    /\ cancelled
    /\ ~buildKilled
    /\ buildKilled' = TRUE
    /\ UNCHANGED << pc, ret, cfgVars, added, watcherOpen, tmpdir, err, caller,
                    cmd, exitChan, procVars, cancelled, envVars, builds,
                    writesTaken, cbVars >>

\* the error w.start hands to its caller
StartError(c, e) == IF c = "init" THEN e ELSE Wrapv("start", e)

\* `go build` ended with a failure: start returns "build: goBuild: ..."
buildFails ==
    /\ pc = "building"
    /\ \E c \in (IF buildKilled THEN BOOLEAN ELSE { FALSE }) :
          StartReturns(caller, StartError(caller, Err("build", c)))
    /\ UNCHANGED << ret, cfgVars, added, watcherOpen, tmpdir, caller, cmd,
                    exitChan, procVars, cancelled, envVars, buildKilled,
                    builds, writesTaken, onStart, onChange, exitCb >>

\* startBinary, lines 213-233, after a successful build and OnProcessStart:
\* cmd.Start fails (ctx already done, or the spawn fails), or the child runs,
\* w.cmd is set and the exit waiter is started.
startBinary(c) ==
    \/ /\ cancelled
       /\ StartReturns(c, StartError(c, Err("cmd.Start", TRUE)))
       /\ UNCHANGED << cmd, procVars >>
    \/ /\ ~cancelled
       /\ StartReturns(c, StartError(c, Err("cmd.Start", FALSE)))
       /\ UNCHANGED << cmd, procVars >>
    \/ /\ ~cancelled
       /\ \E h \in BOOLEAN :
             /\ cmd' = NextPid
             /\ proc' = [proc EXCEPT ![NextPid] = "running"]
             /\ honours' = [honours EXCEPT ![NextPid] = h]
       /\ StartReturns(c, Nil)
       /\ UNCHANGED << status, spont, stopSigs, ctxSig, waitErr >>

\* a build whose result is taken as success although `go build` was killed
buildSucceedsThoughKilled ==
    /\ pc = "building"
    /\ onStart' = onStart + 1
    /\ startBinary(caller)
    /\ UNCHANGED << ret, cfgVars, added, watcherOpen, tmpdir, caller,
                    exitChan, cancelled, envVars, buildKilled, builds,
                    writesTaken, onChange, exitCb >>

\* a start that calls OnProcessStart only once the binary was spawned
buildSucceedsStartAfterSpawn ==
    /\ pc = "building"
    /\ ~buildKilled
    /\ startBinary(caller)
    /\ onStart' = IF cmd' # cmd THEN onStart + 1 ELSE onStart
    /\ UNCHANGED << ret, cfgVars, added, watcherOpen, tmpdir, caller,
                    exitChan, cancelled, envVars, buildKilled, builds,
                    writesTaken, onChange, exitCb >>

\* `go build` succeeded: OnProcessStart, then startBinary
buildSucceeds ==
    /\ pc = "building"
    /\ ~buildKilled
    /\ onStart' = onStart + 1
    /\ startBinary(caller)
    /\ UNCHANGED << ret, cfgVars, added, watcherOpen, tmpdir, caller,
                    exitChan, cancelled, envVars, buildKilled, builds,
                    writesTaken, onChange, exitCb >>

(* ---------------------------- stop / restart -------------------------- *)
\* The control goroutine receives the exit notification of child p: the
\* child and its waiter are gone, only the record of how it ended is kept.
Consume(p) ==
    /\ proc' = [proc EXCEPT ![p] = "consumed"]
    /\ honours' = [honours EXCEPT ![p] = FALSE]
    /\ status' = [status EXCEPT ![p] = "none"]
    /\ stopSigs' = [stopSigs EXCEPT ![p] = 0]
    /\ ctxSig' = [ctxSig EXCEPT ![p] = FALSE]
    /\ waitErr' = [waitErr EXCEPT ![p] = Nil]

\* cmd.Process.Signal succeeds until cmd.Wait has reaped the child
Signalable(p) == proc[p] \in { "running", "exited" }

\* an Events case that only logs restart's error
RestartFailsUnreported ==
    /\ pc' = "select"
    /\ UNCHANGED << err, onExit >>

\* restart's error reaches the Events case: OnProcessExit(err), Logf
RestartFails ==
    /\ pc' = "select"
    /\ onExit' = onExit + 1
    /\ UNCHANGED err

\* restart that starts the new binary without stopping the old one
restartNoStop ==
    /\ StartBegins("restart")
    /\ UNCHANGED procVars

\* a restart whose stop fails when there is no handle to stop
restartNilHandleFails ==
    IF cmd = 0 \/ ~Signalable(cmd)
       THEN /\ RestartFails
            /\ UNCHANGED << builds, buildKilled, caller, procVars >>
       ELSE /\ stopSigs' = [stopSigs EXCEPT ![cmd] = @ + 1]
            /\ pc' = "stop_wait"
            /\ UNCHANGED << err, onExit, builds, buildKilled, caller,
                            proc, honours, status, spont, ctxSig, waitErr >>

\* w.restart(ctx, file), lines 167-175, up to its first blocking call:
\* stop returns nil on a nil handle and start begins; otherwise stop sends
\* the interrupt and waits, or fails when the interrupt cannot be delivered.
restart ==
    IF cmd = 0
       THEN /\ StartBegins("restart")
            /\ UNCHANGED procVars
       ELSE IF Signalable(cmd)
               THEN /\ stopSigs' = [stopSigs EXCEPT ![cmd] = @ + 1]
                    /\ pc' = "stop_wait"
                    /\ UNCHANGED << err, onExit, builds, buildKilled, caller,
                                    proc, honours, status, spont, ctxSig,
                                    waitErr >>
               ELSE /\ RestartFails
                    /\ UNCHANGED << builds, buildKilled, caller, procVars >>

\* a stop whose abandoned wait counts as success: restart goes on to start
stopCtxDoneProceeds ==
    /\ pc = "stop_wait"
    /\ cancelled
    /\ StartBegins("restart")
    /\ UNCHANGED << ret, cfgVars, added, watcherOpen, tmpdir, cmd,
                    exitChan, procVars, cancelled, envVars,
                    writesTaken, onStart, onChange, exitCb >>

\* a stop that drops the handle when its wait is abandoned
stopCtxDoneClearsHandle ==
    /\ pc = "stop_wait"
    /\ cancelled
    /\ RestartFails
    /\ cmd' = 0
    /\ UNCHANGED << ret, cfgVars, added, watcherOpen, tmpdir, caller,
                    exitChan, procVars, cancelled, envVars, buildKilled,
                    builds, writesTaken, onStart, onChange, exitCb >>

\* stop, lines 187-189: ctx.Done() wins the select, stop returns ctx.Err()
stopCtxDone ==
    /\ pc = "stop_wait"
    /\ cancelled
    /\ RestartFails
    /\ UNCHANGED << ret, cfgVars, added, watcherOpen, tmpdir, caller, cmd,
                    exitChan, procVars, cancelled, envVars, buildKilled,
                    builds, writesTaken, onStart, onChange, exitCb >>

\* a stop that takes only a nil wait result as success
StopAcceptsNilOnly(e) == e.kind = "nil"

\* the handle is cleared when the exit result is nil or an *exec.ExitError
StopAccepts(e) == e.kind \in { "nil", "ExitError" }

\* a stop that, once the old child is gone, discards the change events that
\* queued up while it waited
stopExitDiscardsEvents ==
    /\ pc = "stop_wait"
    /\ exitChan # << >>
    /\ LET h == Head(exitChan) IN
         /\ exitChan' = Tail(exitChan)
         /\ Consume(h.pid)
         /\ IF StopAccepts(h.err)
               THEN /\ cmd' = 0
                    /\ StartBegins("restart")
                    /\ UNCHANGED exitCb
               ELSE /\ RestartFails
                    /\ exitCb' = [exitCb EXCEPT ![h.pid] = @ + 1]
                    /\ UNCHANGED << cmd, builds, buildKilled, caller >>
    /\ events' = << >>
    /\ UNCHANGED << ret, cfgVars, added, watcherOpen, tmpdir, spont, cancelled,
                    errs, produced, producedErrs, writesTaken, onStart,
                    onChange >>

\* a stop that forgets to clear the handle after the old child is gone
stopExitKeepsHandle ==
    /\ pc = "stop_wait"
    /\ exitChan # << >>
    /\ LET h == Head(exitChan) IN
         /\ exitChan' = Tail(exitChan)
         /\ Consume(h.pid)
         /\ IF StopAccepts(h.err)
               THEN /\ StartBegins("restart")
                    /\ UNCHANGED << cmd, exitCb >>
               ELSE /\ RestartFails
                    /\ exitCb' = [exitCb EXCEPT ![h.pid] = @ + 1]
                    /\ UNCHANGED << cmd, builds, buildKilled, caller >>
    /\ UNCHANGED << ret, cfgVars, added, watcherOpen, tmpdir, spont, cancelled,
                    envVars, writesTaken, onStart, onChange >>

\* stop, lines 190-197: the exit notification wins the select
stopExit ==
    /\ pc = "stop_wait"
    /\ exitChan # << >>
    /\ LET h == Head(exitChan) IN
         /\ exitChan' = Tail(exitChan)
         /\ Consume(h.pid)
         /\ IF StopAccepts(h.err)
               THEN /\ cmd' = 0
                    /\ StartBegins("restart")
                    /\ UNCHANGED exitCb
               ELSE /\ RestartFails
                    /\ exitCb' = [exitCb EXCEPT ![h.pid] = @ + 1]
                    /\ UNCHANGED << cmd, builds, buildKilled, caller >>
    /\ UNCHANGED << ret, cfgVars, added, watcherOpen, tmpdir, spont, cancelled,
                    envVars, writesTaken, onStart, onChange >>

(* ---------------------------- watch: the loop ------------------------- *)
\* case <-ctx.Done(), lines 135-139
selectCtxDone ==
    /\ pc = "select"
    /\ cancelled
    /\ IF err = Nil
          THEN /\ pc' = "cancel_wait"
               /\ UNCHANGED << ret, watcherOpen, tmpdir >>
          ELSE Return(err)
    /\ UNCHANGED << cfgVars, added, err, caller, cmd, exitChan, procVars,
                    cancelled, envVars, buildKilled, builds, writesTaken,
                    cbVars >>

\* a cancellation case that goes on looping after the exit was received
cancelWaitExitContinues ==
    /\ pc = "cancel_wait"
    /\ exitChan # << >>
    /\ LET h == Head(exitChan) IN
         /\ exitChan' = Tail(exitChan)
         /\ Consume(h.pid)
         /\ err' = Join(h.err, CtxErr)
         /\ pc' = "select"
    /\ UNCHANGED << ret, watcherOpen, tmpdir, cfgVars, added, caller, cmd,
                    spont, cancelled, envVars, buildKilled, builds,
                    writesTaken, cbVars >>

\* line 137: err = errors.Join(<-w.exitChan, ctx.Err()); return err
cancelWaitExit ==
    /\ pc = "cancel_wait"
    /\ exitChan # << >>
    /\ LET h == Head(exitChan) IN
         /\ exitChan' = Tail(exitChan)
         /\ Consume(h.pid)
         /\ err' = Join(h.err, CtxErr)
         /\ Return(Join(h.err, CtxErr))
    /\ UNCHANGED << cfgVars, added, caller, cmd, spont, cancelled, envVars,
                    buildKilled, builds, writesTaken, cbVars >>

\* an Events case without the test of the Write bit
selectEventAnyOp ==
    /\ pc = "select"
    /\ events # << >>
    /\ events' = Tail(events)
    /\ onChange' = onChange + 1
    /\ writesTaken' = writesTaken + 1
    /\ restart
    /\ UNCHANGED << ret, cfgVars, added, watcherOpen, tmpdir, cmd, exitChan,
                    cancelled, errs, produced, producedErrs, onStart, exitCb >>

\* case event := <-watcher.Events, lines 140-149
selectEvent ==
    /\ pc = "select"
    /\ events # << >>
    /\ events' = Tail(events)
    /\ IF Head(events) = "write"
          THEN /\ onChange' = onChange + 1
               /\ writesTaken' = writesTaken + 1
               /\ restart
          ELSE UNCHANGED << pc, err, onExit, onChange, writesTaken, builds,
                            buildKilled, caller, procVars >>
    /\ UNCHANGED << ret, cfgVars, added, watcherOpen, tmpdir, cmd, exitChan,
                    cancelled, errs, produced, producedErrs, onStart, exitCb >>

\* case err := <-watcher.Errors, lines 150-151
selectError ==
    /\ pc = "select"
    /\ errs > 0
    /\ errs' = errs - 1
    /\ UNCHANGED << pc, ret, cfgVars, added, watcherOpen, tmpdir, err, caller,
                    cmd, exitChan, procVars, cancelled, events, produced,
                    producedErrs, buildKilled, builds, writesTaken, cbVars >>

\* an exit case that rebuilds and restarts the binary on its own
selectExitAutoRestart ==
    /\ pc = "select"
    /\ exitChan # << >>
    /\ LET h == Head(exitChan) IN
         /\ exitChan' = Tail(exitChan)
         /\ Consume(h.pid)
         /\ exitCb' = [exitCb EXCEPT ![h.pid] = @ + 1]
    /\ builds' = builds + 1
    /\ buildKilled' = FALSE
    /\ caller' = "restart"
    /\ cmd' = 0
    /\ pc' = "building"
    /\ onExit' = onExit + 1
    /\ UNCHANGED << ret, cfgVars, added, watcherOpen, tmpdir, err, spont,
                    cancelled, envVars, writesTaken, onStart, onChange >>

\* case err := <-w.exitChan, lines 152-154
selectExit ==
    /\ pc = "select"
    /\ exitChan # << >>
    /\ LET h == Head(exitChan) IN
         /\ exitChan' = Tail(exitChan)
         /\ Consume(h.pid)
         /\ exitCb' = [exitCb EXCEPT ![h.pid] = @ + 1]
    /\ onExit' = onExit + 1
    /\ UNCHANGED << pc, ret, cfgVars, added, watcherOpen, tmpdir, err, caller,
                    cmd, spont, cancelled, envVars, buildKilled, builds,
                    writesTaken, onStart, onChange >>

(* ---------------------------- the child and its waiter ---------------- *)
Interrupted(p) == stopSigs[p] > 0 \/ ctxSig[p]

ChildExits(p) ==
    /\ proc[p] = "running"
    /\ proc' = [proc EXCEPT ![p] = "exited"]
    /\ spont' = [spont EXCEPT ![p] = ~Interrupted(p)]
    /\ \E st \in { "ok", "fail" } : status' = [status EXCEPT ![p] = st]
    /\ UNCHANGED << pc, ret, cfgVars, added, watcherOpen, tmpdir, err, caller,
                    cmd, exitChan, honours, stopSigs, ctxSig, waitErr,
                    cancelled, envVars, buildKilled, builds, writesTaken,
                    cbVars >>

\* the child exits on its own (it crashes, or it finishes)
childCrash(p) == ChildExits(p)

\* the child shuts down because it received an interrupt it honours
childInterrupted(p) ==
    /\ Interrupted(p)
    /\ honours[p]
    /\ ChildExits(p)

\* os/exec's context watcher of the child: on ctx.Done() it calls cmd.Cancel,
\* which is cmd.Process.Signal(os.Interrupt) (lines 219-221)
ctxCancel(p) ==
    /\ cancelled
    /\ ~ctxSig[p]
    /\ Signalable(p)
    /\ ctxSig' = [ctxSig EXCEPT ![p] = TRUE]
    /\ UNCHANGED << pc, ret, cfgVars, added, watcherOpen, tmpdir, err, caller,
                    cmd, exitChan, proc, honours, status, spont, stopSigs,
                    waitErr, cancelled, envVars, buildKilled, builds,
                    writesTaken, cbVars >>

\* what cmd.Wait returns: an *exec.ExitError for a failure status; for a
\* success status the context error when cmd.Cancel ran, else nil or the
\* error of an output-copying goroutine
WaitResults(p) ==
    IF status[p] = "fail" THEN { Err("ExitError", FALSE) }
    ELSE IF ctxSig[p] THEN { CtxErr }
    ELSE { Nil, Err("io", FALSE) }

\* the exit waiter, line 229: err := cmd.Wait()
waiterWait(p) ==
    /\ proc[p] = "exited"
    /\ proc' = [proc EXCEPT ![p] = "waited"]
    /\ \E e \in WaitResults(p) : waitErr' = [waitErr EXCEPT ![p] = e]
    /\ UNCHANGED << pc, ret, cfgVars, added, watcherOpen, tmpdir, err, caller,
                    cmd, exitChan, honours, status, spont, stopSigs, ctxSig,
                    cancelled, envVars, buildKilled, builds, writesTaken,
                    cbVars >>

\* the exit waiter, line 230: w.exitChan <- err (capacity 1, line 102)
waiterSend(p) ==
    /\ proc[p] = "waited"
    /\ Len(exitChan) < 1
    /\ exitChan' = Append(exitChan, [pid |-> p, err |-> waitErr[p]])
    /\ proc' = [proc EXCEPT ![p] = "sent"]
    /\ UNCHANGED << pc, ret, cfgVars, added, watcherOpen, tmpdir, err, caller,
                    cmd, honours, status, spont, stopSigs, ctxSig, waitErr,
                    cancelled, envVars, buildKilled, builds, writesTaken,
                    cbVars >>

(* ---------------------------- environment ----------------------------- *)
\* the subscription delivers a change event of a registered path
fsEvent(op) ==
    /\ watcherOpen
    /\ added > 0
    /\ produced < MaxEvents
    /\ events' = Append(events, op)
    /\ produced' = produced + 1
    /\ UNCHANGED << pc, ret, cfgVars, added, watcherOpen, tmpdir, err, caller,
                    cmd, exitChan, procVars, cancelled, errs, producedErrs,
                    buildKilled, builds, writesTaken, cbVars >>

fsWrite == fsEvent("write")

fsOther == fsEvent("other")

\* the subscription reports an error
fsError ==
    /\ watcherOpen
    /\ producedErrs < MaxErrs
    /\ errs' = errs + 1
    /\ producedErrs' = producedErrs + 1
    /\ UNCHANGED << pc, ret, cfgVars, added, watcherOpen, tmpdir, err, caller,
                    cmd, exitChan, procVars, cancelled, events, produced,
                    buildKilled, builds, writesTaken, cbVars >>

\* the caller of Run cancels ctx
cancel ==
    /\ ~cancelled
    /\ pc # "done"
    /\ cancelled' = TRUE
    /\ UNCHANGED << pc, ret, cfgVars, added, watcherOpen, tmpdir, err, caller,
                    cmd, exitChan, procVars, envVars, buildKilled, builds,
                    writesTaken, cbVars >>

(* ---------------------------- specification --------------------------- *)
Preflight ==
    \/ RunCheckFlags
    \/ RunResolveFiles
    \/ RunPrintFiles
    \/ RunMkdirTemp
    \/ watchNewWatcher
    \/ watchAdd

Control ==
    \/ watchInitialStart
    \/ buildFails
    \/ buildSucceeds
    \/ stopCtxDone
    \/ stopExit
    \/ selectCtxDone
    \/ cancelWaitExit
    \/ selectEvent
    \/ selectError
    \/ selectExit

Next ==
    \/ Preflight
    \/ Control
    \/ ctxKillBuild
    \/ \E p \in Procs : childCrash(p)
    \/ \E p \in Procs : childInterrupted(p)
    \/ \E p \in Procs : ctxCancel(p)
    \/ \E p \in Procs : waiterWait(p)
    \/ \E p \in Procs : waiterSend(p)
    \/ fsWrite
    \/ fsOther
    \/ fsError
    \/ cancel

Spec == Init /\ [][Next]_vars

NextFlags == Preflight

\* the variables of package watcher
watcherVars == << pc, ret, buildFlags, printFiles, added, watcherOpen, tmpdir,
                 err, caller, cmd, exitChan, procVars, cancelled, envVars,
                 buildKilled, builds, writesTaken, cbVars >>

\* the directory tree gets one more entry, in the root or in a directory
mkEntry ==
    /\ ~resolved
    /\ Cardinality(tree) < MaxEntries
    /\ \E parent \in { << >> } \cup { q \in tree : IsDir(q[Len(q)]) } :
         \E n \in Names :
            /\ Len(parent) < MaxDepth
            /\ Append(parent, n) \notin tree
            /\ tree' = tree \cup { Append(parent, n) }
    /\ UNCHANGED << watcherVars, root, vendor, goFiles, files, resolved >>

\* files, err := getFiles(ctx, []string{root}, vendor, goFiles)
resolve ==
    /\ ~resolved
    /\ files' = getFiles(root, << >>)
    /\ resolved' = TRUE
    /\ UNCHANGED << watcherVars, tree, root, vendor, goFiles >>

NextFiles == mkEntry \/ resolve

SpecFiles == InitFiles /\ [][NextFiles]_vars

SpecFlags == InitFlags /\ [][NextFlags]_vars

(* Fairness: the Go scheduler runs every runnable goroutine: the control  *)
(* goroutine takes a step it can take; so do the exit waiters and the      *)
(* context watchers, and a child that honours the interrupt exits once it  *)
(* was interrupted.  A spontaneous exit of a child, a change event and the *)
(* cancellation are never forced.                                           *)
Background ==
    \/ ctxKillBuild
    \/ \E p \in Procs : childInterrupted(p)
    \/ \E p \in Procs : ctxCancel(p)
    \/ \E p \in Procs : waiterWait(p)
    \/ \E p \in Procs : waiterSend(p)

Fairness ==
    /\ WF_vars(Preflight \/ Control)
    /\ WF_vars(Background)

FairSpec == Init /\ [][Next]_vars /\ Fairness

(* ---------------------------- properties ------------------------------ *)
\* children that were started and whose exit notification is not consumed
Unobserved == { p \in Procs : proc[p] \in { "running", "exited", "waited", "sent" } }

\* the control loop of watch was entered (the initial start was attempted)
LoopEntered == builds > 0

\* C1: single-instance invariant: there are never two started children whose
\* exit notification has not yet been consumed by the control loop.
SingleInstance == Cardinality(Unobserved) <= 1

\* a second child runs after the first one's exit was consumed by stop
SingleInstanceWitness ==
    /\ proc[1] = "consumed"
    /\ proc[2] = "running"
    /\ ~spont[1]
    /\ exitCb[1] = 0

\* C2: cancellation cleanup while Running: when the session is cancelled at
\* the event-wait while the child of a successful initial start runs,
\* honours the interrupt and has been sent it by cmd.Cancel, Run eventually
\* returns.
CancelWhileRunningReturns ==
    \A p \in Procs :
       (cancelled /\ pc = "select" /\ err = Nil /\ cmd = p
          /\ proc[p] = "running" /\ honours[p] /\ ctxSig[p])
       ~> (pc = "done")

\* C3: cancellation always terminates the session: Run never blocks in the
\* cancellation case on an exit notification that no child will send.
CancelNeverWaitsForNoChild == ~(pc = "cancel_wait" /\ Unobserved = { })

\* C4: no orphaned child at session end: when Run has returned after the
\* control loop was entered, every child it started has had its exit
\* notification consumed.
NoOrphanAtReturn == (pc = "done" /\ LoopEntered) => Unobserved = { }

\* C5: return value on cancellation: what Run returns once the control loop
\* was entered is the cancellation error or a join that contains it.
ReturnsCancellation == (pc = "done" /\ LoopEntered) => ret.ctx

\* C6 as stated: a child that exited without having been asked to stop has
\* had OnProcessExit called exactly once with its exit result once that
\* result is consumed.
CrashReportedExactlyOnce ==
    \A p \in Procs :
       (proc[p] = "consumed" /\ spont[p] /\ ~cancelled) => exitCb[p] = 1

\* the loop's exit case takes the exit notification of child p
ExitCaseTakes(p) ==
    pc = "select" /\ pc' = "select" /\ proc[p] = "sent" /\ proc'[p] = "consumed"

\* some child is spawned in this step
Spawns == \E p \in Procs : proc[p] = "none" /\ proc'[p] = "running"

\* C6 amended: OnProcessExit is called at most once with a child's exit
\* result, exactly once when the loop's exit case takes the notification;
\* that step begins no build and spawns no child, and a build is begun only
\* by the initial start or for a write event the loop has taken.
CrashNotAutoRestarted ==
    /\ [](\A p \in Procs : exitCb[p] <= 1)
    /\ [][\A p \in Procs :
            ExitCaseTakes(p) =>
               /\ exitCb'[p] = 1
               /\ builds' = builds
               /\ onStart' = onStart
               /\ ~Spawns]_vars
    /\ [][builds' # builds =>
            \/ pc = "watch_add"
            \/ writesTaken' = writesTaken + 1
            \/ pc = "stop_wait"]_vars
    /\ [](builds <= 1 + writesTaken)

\* a crash of the child was taken by the loop's exit case
CrashObserved ==
    \E p \in Procs : proc[p] = "consumed" /\ spont[p] /\ exitCb[p] = 1
                     /\ pc = "select" /\ ~cancelled

\* C7: recovery after a crash: with no child left unobserved (the supervisor
\* is Idle), a write event taken by the loop begins a build.
WriteWhenIdleBuilds ==
    [][(pc = "select" /\ ~cancelled /\ Unobserved = { }
          /\ writesTaken' = writesTaken + 1)
       => builds' = builds + 1]_vars

\* the flags C8 names: "-o", "--o", or a flag starting with "-o=" or "--o="
NamedOutputFlag(f) ==
    \/ Len(f) = 2 /\ f[1] = "-" /\ f[2] = "o"
    \/ Len(f) = 3 /\ f[1] = "-" /\ f[2] = "-" /\ f[3] = "o"
    \/ Len(f) >= 3 /\ f[1] = "-" /\ f[2] = "o" /\ f[3] = "="
    \/ Len(f) >= 4 /\ f[1] = "-" /\ f[2] = "-" /\ f[3] = "o" /\ f[4] = "="

\* nothing was registered, built or spawned
NothingStarted ==
    /\ added = 0
    /\ ~watcherOpen
    /\ ~tmpdir
    /\ builds = 0
    /\ onStart = 0
    /\ \A p \in Procs : proc[p] = "none"

\* C8: output-flag rejection: once the flags are checked, Run has returned
\* the configuration error exactly when some build flag is "-o", "--o" or
\* starts with "-o=" or "--o=", and then nothing was registered, built or
\* spawned.
OutputFlagRejected ==
    pc # "check_flags" =>
       ((ret.kind = "ConfigError" /\ pc = "done" /\ NothingStarted)
          <=> (\E i \in 1 .. Len(buildFlags) : NamedOutputFlag(buildFlags[i])))

\* Run rejected a list whose only output flag has the "=" form
OutputFlagRejectedWitness ==
    /\ ret.kind = "ConfigError"
    /\ Len(buildFlags) = 2
    /\ buildFlags[1] = << "-", "v" >>
    /\ buildFlags[2] = << "-", "-", "o", "=", "f" >>

\* a restart is in progress: stop waits for the exit, or its build runs
InRestart == pc = "stop_wait" \/ (pc = "building" /\ caller = "restart")

PendingWrites == { i \in 1 .. Len(events) : events[i] = "write" }

\* stop waits for a child that ignores the interrupt: the step never unblocks
StopBlocked == pc = "stop_wait" /\ cmd # 0 /\ ~honours[cmd]

\* C9: no lost trigger: a write event pending while a restart is in progress
\* is eventually taken by the loop, which then runs the restart protocol for
\* it, unless the session is cancelled or stop never unblocks.
NoLostTrigger ==
    \A k \in 1 .. (MaxEvents - 1) :
       (InRestart /\ PendingWrites # { } /\ writesTaken = k /\ ~cancelled)
       ~> (writesTaken > k \/ cancelled \/ StopBlocked)

\* a write event is pending while the restart for an earlier one waits in stop
NoLostTriggerWitness ==
    /\ pc = "stop_wait"
    /\ writesTaken = 1
    /\ PendingWrites # { }
    /\ ~cancelled
    /\ honours[cmd]

\* C10: watch registration precedes any process: a build is begun only when
\* every path is registered, and when a registration failed Run returned that
\* error with nothing built or spawned.
RegistrationPrecedesProcess ==
    /\ builds > 0 => added = NumFiles
    /\ (\E p \in Procs : proc[p] # "none") => added = NumFiles
    /\ ret.kind = "WatchAddError" =>
          /\ pc = "done"
          /\ added < NumFiles
          /\ builds = 0
          /\ onStart = 0
          /\ \A p \in Procs : proc[p] = "none"

\* the second registration failed
RegistrationFailedWitness == ret.kind = "WatchAddError" /\ added = 1

\* the control goroutine is in the loop of watch or in a call made from it
InLoop == pc \in { "select", "stop_wait", "building", "cancel_wait" } /\ LoopEntered

\* restart returns an error to the Events case in this step: stop could not
\* deliver the interrupt, stop's wait was cancelled or got a wait error, or
\* the build or the spawn of the restart failed
RestartErrorStep ==
    \/ pc = "select" /\ writesTaken' = writesTaken + 1 /\ pc' = "select"
    \/ pc = "stop_wait" /\ pc' = "select"
    \/ pc = "building" /\ caller = "restart" /\ pc' = "select" /\ ~Spawns

\* C11: steady-state errors are absorbed: once the loop was entered Run
\* returns only when ctx is cancelled, a restart error or a subscription
\* error leaves the control goroutine at the event-wait, and each restart
\* error is reported by one OnProcessExit call.
SteadyStateErrorsAbsorbed ==
    /\ []((pc = "done" /\ LoopEntered) => cancelled)
    /\ [][(InLoop /\ pc' = "done") => cancelled]_vars
    /\ [][RestartErrorStep => (onExit' = onExit + 1 /\ ret' = NoReturn)]_vars
    /\ [][(pc = "select" /\ errs' = errs - 1)
            => (pc' = "select" /\ ret' = NoReturn /\ onExit' = onExit)]_vars

\* a restart failed in stop (the interrupt could not be delivered) and the
\* loop is back at the event-wait, not cancelled
SteadyStateErrorWitness ==
    /\ pc = "select"
    /\ ~cancelled
    /\ writesTaken = 1
    /\ builds = 1
    /\ onExit = 2
    /\ ret = NoReturn

\* a build ends with a failure in this step (at once when ctx is already
\* done, or when `go build` returns an error)
BuildFailsStep ==
    \/ builds' = builds + 1 /\ pc' = "select"
    \/ pc = "building" /\ pc' = "select" /\ onStart' = onStart

\* C12: a build failure leaves the supervisor Idle: the failed attempt spawns
\* no child, afterwards w.cmd is nil and no child is alive or unobserved, the
\* failure is reported by exactly one OnProcessExit call, and the control
\* goroutine is at the event-wait.
BuildFailureLeavesIdle ==
    [][BuildFailsStep =>
          /\ ~Spawns
          /\ cmd' = 0
          /\ \A p \in Procs : proc'[p] \in { "none", "consumed" }
          /\ onExit' = onExit + 1
          /\ pc' = "select"
          /\ ret' = NoReturn]_vars

\* the build of a restart failed after stop had consumed the old child's exit
BuildFailureWitness ==
    /\ pc = "select"
    /\ builds = 2
    /\ onStart = 1
    /\ proc[1] = "consumed"
    /\ proc[2] = "none"
    /\ cmd = 0
    /\ ~spont[1]
    /\ ~cancelled

\* no change event, subscription error or exit notification was consumed
NothingConsumed ==
    /\ produced = Len(events)
    /\ producedErrs = errs
    /\ writesTaken = 0
    /\ \A p \in Procs : proc[p] # "consumed"

\* C13: initial transition: until the initial build+start attempt is over
\* nothing is consumed from the event, error or exit channels; that attempt
\* happens once, and when it fails Run does not return but is at the
\* event-wait with no handle.
InitialTransition ==
    /\ [](builds = 0 => NothingConsumed)
    /\ []((pc = "building" /\ caller = "init") => (builds = 1 /\ NothingConsumed))
    /\ [][(builds' # builds /\ caller' = "init") => builds = 0]_vars
    /\ [][(pc = "watch_add" /\ builds' # builds) => pc' \in { "building", "select" }]_vars
    /\ [][(pc = "building" /\ caller = "init" /\ pc' # pc)
            => (pc' = "select" /\ ret' = NoReturn
                  /\ (err' # Nil => (cmd' = 0 /\ onExit' = onExit + 1)))]_vars

\* the initial build failed, a change event was queued meanwhile, and the
\* supervisor listens
InitialTransitionWitness ==
    /\ pc = "select"
    /\ builds = 1
    /\ err # Nil
    /\ cmd = 0
    /\ events # << >>
    /\ NothingConsumed
    /\ ~cancelled

\* C14: stop-window invariant: from the interrupt stop sends to a handle until
\* that handle's exit notification is consumed, the supervisor sends the
\* handle no second interrupt (stopSigs counts the interrupts stop has
\* delivered to a child whose exit is still unconsumed) and spawns nothing.
StopWindow ==
    /\ \A p \in Procs : stopSigs[p] <= 1
    /\ \A p \in Procs : stopSigs[p] > 0 => Unobserved = { p }

\* C15: handle lifetime: at the event-wait a non-nil w.cmd denotes a child
\* whose exit notification has not been consumed yet.
HandleLifetime ==
    (pc = "select" /\ cmd # 0) => proc[cmd] # "consumed"

\* the children whose exit result is buffered in exitChan
Buffered == { exitChan[i].pid : i \in 1 .. Len(exitChan) }

\* C16: exit notification exactly-once and non-blocking: a child's waiter
\* sends one result, only after cmd.Wait returned; a result is consumed at
\* most once and only from the channel; and whenever a waiter is about to
\* send, exitChan (capacity 1) is empty, so no send ever blocks.
ExitNotificationOnce ==
    /\ [](\A p \in Procs : proc[p] = "waited" => exitChan = << >>)
    /\ [](Len(exitChan) <= 1 /\ Buffered = { p \in Procs : proc[p] = "sent" })
    /\ [][\A p \in Procs :
            /\ (proc'[p] = "sent" /\ proc[p] # "sent") => proc[p] = "waited"
            /\ (proc'[p] = "consumed" /\ proc[p] # "consumed") => p \in Buffered
            /\ proc[p] \in { "sent", "consumed" } => proc'[p] \in { "sent", "consumed" }
            /\ proc[p] = "consumed" => proc'[p] = "consumed"]_vars

\* the waiter of a second child is about to send after the first child's
\* result was consumed
ExitNotificationWitness ==
    /\ proc[1] = "consumed"
    /\ proc[2] = "waited"
    /\ exitChan = << >>

\* the children spawned so far
Spawned == { p \in Procs : proc[p] # "none" }

\* stop delivers an interrupt in this step
StopSignals == \E p \in Procs : stopSigs'[p] > stopSigs[p]

\* C17: restart protocol order and counts: OnFileChange is called once per
\* write event taken; stop signals at most once per write, in the step that
\* takes it; the build of a restart begins only when stop returned success
\* (nothing unobserved, w.cmd nil), at most one per write; a child is
\* spawned only by a build that succeeded, at most one per build.
RestartOrder ==
    /\ [](onChange = writesTaken)
    /\ [](builds <= writesTaken + 1 /\ onStart <= builds)
    /\ [](Cardinality(Spawned) <= onStart)
    /\ [][StopSignals =>
            /\ writesTaken' = writesTaken + 1
            /\ \A p \in Procs : stopSigs'[p] <= stopSigs[p] + 1
            /\ builds' = builds
            /\ pc' = "stop_wait"]_vars
    /\ [][(builds' # builds /\ caller' = "restart") =>
            /\ builds' = builds + 1
            /\ cmd' = 0
            /\ Unobserved' = { }
            /\ \/ pc = "select" /\ writesTaken' = writesTaken + 1 /\ cmd = 0
               \/ pc = "stop_wait" /\ writesTaken' = writesTaken
            /\ ~Spawns]_vars
    /\ [][Spawns =>
            /\ pc = "building"
            /\ ~buildKilled
            /\ onStart' = onStart + 1
            /\ builds' = builds
            /\ Cardinality(Spawned') = Cardinality(Spawned) + 1
            /\ pc' = "select"]_vars
    /\ [][(pc = "stop_wait" => pc' \in { "stop_wait", "building", "select" })
            /\ (pc = "building" => pc' \in { "building", "select" })]_vars

\* one write event was taken with a child running: stop consumed the old
\* child's exit, the build succeeded and the second child runs
RestartOrderWitness ==
    /\ pc = "select"
    /\ writesTaken = 1
    /\ onChange = 1
    /\ builds = 2
    /\ onStart = 2
    /\ proc[1] = "consumed"
    /\ exitCb[1] = 0
    /\ proc[2] = "running"
    /\ cmd = 2

\* the loop's select takes one of its cases in this step
SelectTakes ==
    /\ pc = "select"
    /\ \/ pc' # pc
       \/ Len(events') < Len(events)
       \/ errs' < errs
       \/ Len(exitChan') < Len(exitChan)

\* the loop has taken the cancellation case
CancellationTaken == pc \in { "cancel_wait", "done" } /\ LoopEntered

\* C18: cancellation priority: once ctx is cancelled, the next case the
\* loop's select takes is the cancellation case.
CancellationFirst ==
    [][(SelectTakes /\ cancelled) => pc' \in { "cancel_wait", "done" }]_vars

\* C18 amended: the cancellation case is taken only when ctx is cancelled and
\* is final: after it the loop takes no change event and no subscription
\* error, issues no stop, build or start and calls no callback; it returns,
\* or receives one exit notification and returns.
CancellationFinal ==
    /\ [](CancellationTaken => cancelled)
    /\ [][CancellationTaken =>
            /\ pc' \in { "cancel_wait", "done" }
            /\ Len(events') >= Len(events)
            /\ errs' >= errs
            /\ writesTaken' = writesTaken
            /\ builds' = builds
            /\ ~StopSignals
            /\ ~Spawns
            /\ << onStart', onExit', onChange', exitCb' >>
                 = << onStart, onExit, onChange, exitCb >>]_vars
    /\ [][(pc = "cancel_wait" /\ pc' # pc)
            => (pc' = "done" /\ Len(exitChan') = Len(exitChan) - 1
                  /\ ret' = Join(Head(exitChan).err, CtxErr))]_vars

\* a restart was abandoned in stop's wait on cancellation; the loop then took
\* the cancellation case, received the child's exit and Run returned
CancellationFinalWitness ==
    /\ pc = "done"
    /\ cancelled
    /\ writesTaken = 1
    /\ onExit = 1
    /\ builds = 1
    /\ proc[1] = "consumed"
    /\ ret.kind = "join"

\* C19: build is not pre-empted by cancellation: no kill is issued to a
\* running `go build` because ctx was cancelled.
BuildNotPreempted == pc = "building" => ~buildKilled

\* C19 amended: `go build` runs under exec.CommandContext(ctx, ...), so a
\* cancellation during the build kills it, and only a cancellation does; the
\* control goroutine stays in build until the command has ended, a killed
\* build fails (no OnProcessStart, no child, one OnProcessExit), and a build
\* that ends after the cancellation is followed by no child either way.
BuildKilledOnCancel ==
    /\ [](buildKilled => cancelled)
    /\ [][(pc = "building" /\ buildKilled /\ pc' # pc) =>
            /\ pc' = "select"
            /\ onStart' = onStart
            /\ onExit' = onExit + 1
            /\ cmd' = 0]_vars
    /\ [][(pc = "building" /\ cancelled) =>
            /\ pc' \in { "building", "select" }
            /\ ~Spawns
            /\ ret' = NoReturn]_vars

\* the build of a restart was killed by the cancellation and has failed
BuildKilledWitness ==
    /\ pc = "select"
    /\ buildKilled
    /\ builds = 2
    /\ onStart = 1
    /\ cmd = 0
    /\ proc[1] = "consumed"
    /\ proc[2] = "none"

\* stop's wait receives, in this step, an exit notification that carries nil
\* or an exit-code/signal result
StopReceivesExitCode ==
    /\ pc = "stop_wait"
    /\ exitChan # << >>
    /\ Len(exitChan') < Len(exitChan)
    /\ Head(exitChan).err.kind \in { "nil", "ExitError" }

\* C20: stop succeeds on any exit code: whenever the exit notification of a
\* child that stop has interrupted is consumed and carries nil or an
\* exit-code/signal result, the handle is cleared and the exit is not
\* reported through OnProcessExit.
InterruptedExitNeverReported ==
    [][\A p \in Procs :
          (/\ stopSigs[p] > 0
           /\ proc[p] = "sent"
           /\ proc'[p] = "consumed"
           /\ Head(exitChan).err.kind \in { "nil", "ExitError" })
          => (exitCb'[p] = exitCb[p] /\ (pc' # "done" => cmd' = 0))]_vars

\* C20 amended: the same, for the exit notification received by stop's wait:
\* when it carries nil or an *exec.ExitError, stop returns nil (restart
\* goes on to start), w.cmd is cleared, OnProcessExit is not called with that
\* exit, and no restart error is reported for it.
StopSucceedsOnExitCode ==
    [][StopReceivesExitCode =>
          /\ cmd' = 0
          /\ Unobserved' = { }
          /\ builds' = builds + 1
          /\ caller' = "restart"
          /\ exitCb' = exitCb
          /\ ~cancelled => (pc' = "building" /\ onExit' = onExit)]_vars

\* stop has interrupted the child and its wait is about to receive the
\* child's non-zero exit
StopSucceedsWitness ==
    /\ pc = "stop_wait"
    /\ cmd = 1
    /\ stopSigs[1] = 1
    /\ ~spont[1]
    /\ proc[1] = "sent"
    /\ exitChan = << [pid |-> 1, err |-> Err("ExitError", FALSE)] >>
    /\ ~cancelled

\* stop's wait ends in this step
StopWaitEnds == pc = "stop_wait" /\ pc' # pc

\* C21: stop under cancellation: when ctx is cancelled while stop waits for
\* the exit notification, stop's wait ends with the cancellation error: the
\* notification is not received, the handle stays, the restart error is
\* reported and no child is touched.
StopReturnsCancellation ==
    [][(StopWaitEnds /\ cancelled) =>
          /\ exitChan' = exitChan
          /\ cmd' = cmd
          /\ pc' = "select"
          /\ onExit' = onExit + 1
          /\ procVars' = procVars]_vars

\* C21 amended: stop's wait ends without the exit notification only when ctx
\* is cancelled; stop then returns the cancellation error (reported once by
\* the Events case), leaves w.cmd as it is, begins no build and signals
\* nothing. With ctx cancelled the wait may still end with the exit
\* notification instead. A child leaves the running state only by its own
\* exit, never in a step of the control goroutine: no kill is sent.
StopUnderCancellation ==
    /\ [][(StopWaitEnds /\ exitChan' = exitChan) =>
            /\ cancelled
            /\ pc' = "select"
            /\ cmd' = cmd
            /\ cmd # 0
            /\ onExit' = onExit + 1
            /\ exitCb' = exitCb
            /\ builds' = builds
            /\ procVars' = procVars]_vars
    /\ [][(StopWaitEnds /\ exitChan' # exitChan) =>
            /\ exitChan # << >>
            /\ exitChan' = Tail(exitChan)
            /\ Head(exitChan).pid = cmd]_vars
    /\ [][\A p \in Procs :
            (proc[p] = "running" /\ proc'[p] # "running")
               => (proc'[p] = "exited" /\ pc' = pc /\ cmd' = cmd)]_vars

\* stop gave up its wait on cancellation: the interrupted child still runs
\* and w.cmd still names it
StopUnderCancellationWitness ==
    /\ pc = "select"
    /\ cancelled
    /\ cmd = 1
    /\ proc[1] = "running"
    /\ stopSigs[1] = 1
    /\ writesTaken = 1
    /\ onExit = 1

\* the loop takes a change event without the Write bit, or a subscription
\* error, in this step
NonTriggeringTaken ==
    /\ pc = "select"
    /\ \/ events # << >> /\ Head(events) # "write" /\ events' = Tail(events)
       \/ errs' = errs - 1

\* C22: non-triggering events change nothing: taking a change event that is
\* not a write, or a subscription error, leaves the handle, the exit channel
\* and every child as they are, begins no stop, build or start, calls no
\* callback, and the control goroutine stays at the event-wait.
NonTriggeringNoEffect ==
    [][NonTriggeringTaken =>
          /\ pc' = "select"
          /\ cmd' = cmd
          /\ exitChan' = exitChan
          /\ procVars' = procVars
          /\ builds' = builds
          /\ buildKilled' = buildKilled
          /\ writesTaken' = writesTaken
          /\ cbVars' = cbVars
          /\ err' = err
          /\ ret' = NoReturn]_vars

\* a non-write event and a subscription error were taken while a child runs
NonTriggeringWitness ==
    /\ pc = "select"
    /\ produced - Len(events) > writesTaken
    /\ producedErrs > errs
    /\ cmd = 1
    /\ proc[1] = "running"
    /\ builds = 1
    /\ onExit = 0
    /\ onChange = 0

\* the supervisor is Idle at the event-wait: the last start attempt failed
\* and there is no handle
Idle == pc = "select" /\ cmd = 0

\* the loop takes a write event in this step
WriteTaken ==
    /\ pc = "select"
    /\ events # << >>
    /\ Head(events) = "write"
    /\ events' = Tail(events)
    /\ writesTaken' = writesTaken + 1

\* C23: build retry only on file change: a failed build leaves the
\* supervisor Idle; while Idle a build is begun only by the step that takes
\* a write event, and every write event taken while Idle begins one build
\* at once, with no stop signal (stop is a no-op on the nil handle); a
\* spawn after that build makes the new child the handle.
BuildRetryOnWrite ==
    /\ [][(BuildFailsStep /\ pc = "building") => Idle']_vars
    /\ [][(Idle /\ builds' # builds) => (WriteTaken /\ builds' = builds + 1)]_vars
    /\ [][(Idle /\ WriteTaken) =>
            /\ builds' = builds + 1
            /\ caller' = "restart"
            /\ onChange' = onChange + 1
            /\ ~StopSignals
            /\ procVars' = procVars
            /\ ~cancelled => pc' = "building"]_vars
    /\ [][(pc = "building" /\ Spawns) =>
            /\ cmd' # 0
            /\ proc[cmd'] = "none"
            /\ proc'[cmd'] = "running"
            /\ pc' = "select"]_vars

\* the initial build failed, a write event was taken, and the build and the
\* spawn it led to succeeded
BuildRetryWitness ==
    /\ pc = "select"
    /\ err # Nil
    /\ onExit = 1
    /\ writesTaken = 1
    /\ builds = 2
    /\ onStart = 1
    /\ cmd = 1
    /\ proc[1] = "running"

\* `go build` is spawned in this step
BuildToolSpawns == builds' # builds /\ pc' = "building"

\* C25: no spawn after cancellation: once ctx is cancelled no step spawns
\* the build tool or the binary; a start attempt made after cancellation
\* (initial, or for a write event taken after it) fails and is reported.
NoSpawnAfterCancel ==
    /\ [][cancelled => (~Spawns /\ ~BuildToolSpawns /\ Spawned' = Spawned)]_vars
    /\ [][(cancelled /\ builds' # builds) =>
            (pc' = "select" /\ onExit' = onExit + 1 /\ onStart' = onStart
               /\ cmd' = 0)]_vars

\* the initial start was refused because ctx was already cancelled, and a
\* write event taken after that led to a second refused start attempt
NoSpawnAfterCancelWitness ==
    /\ pc = "select"
    /\ cancelled
    /\ err = Err("build", TRUE)
    /\ builds = 2
    /\ writesTaken = 1
    /\ onExit = 2
    /\ onStart = 0
    /\ Spawned = { }

\* a start attempt ends in this step
StartAttemptEnds == pc = "building" /\ pc' = "select"

\* C26: on-process-start ordering: OnProcessStart is called once per start
\* attempt, in the step that ends the build with success, and never for a
\* build that failed or was killed; every spawn comes with that call, and
\* a spawn failure comes with the call and one OnProcessExit report. For the
\* initial start the error kept by watch tells the three outcomes apart.
OnProcessStartOrdering ==
    /\ [](onStart <= builds)
    /\ [][onStart' # onStart =>
            /\ StartAttemptEnds
            /\ ~buildKilled
            /\ onStart' = onStart + 1
            /\ builds' = builds]_vars
    /\ [][Spawns => onStart' = onStart + 1]_vars
    /\ [][(StartAttemptEnds /\ ~Spawns) => onExit' = onExit + 1]_vars
    /\ [][(StartAttemptEnds /\ caller = "init") =>
            /\ err'.kind \in { "nil", "build", "cmd.Start" }
            /\ err'.kind = "build" <=> onStart' = onStart
            /\ err'.kind = "cmd.Start" <=> (onStart' = onStart + 1 /\ ~Spawns)
            /\ err'.kind = "nil" <=> Spawns]_vars

\* the initial build succeeded and the spawn failed: one OnProcessStart call,
\* one OnProcessExit report, no child
SpawnFailureWitness ==
    /\ pc = "select"
    /\ err.kind = "cmd.Start"
    /\ builds = 1
    /\ onStart = 1
    /\ onExit = 1
    /\ Spawned = { }
    /\ cmd = 0

\* the last name of a path
Base(f) == f[Len(f)]

\* the path lies under an entry of that name
Under(f, n) == \E i \in 1 .. (Len(f) - 1) : f[i] = n

\* C24: file-set exclusions of getFiles: the resolved set holds no path
\* under a .git entry and no dotfile; with vendor off no path under a vendor
\* directory at any depth; with goFiles on every path ends in ".go".
FileSetExclusions ==
    resolved =>
       \A f \in files :
          /\ ~Under(f, << ".", "g", "i", "t" >>)
          /\ Base(f) # << ".", "g", "i", "t" >>
          /\ Base(f)[1] # "."
          /\ ~vendor => ~Under(f, << "v", "e", "n", "d", "o", "r" >>)
          /\ goFiles => (Len(Base(f)) >= 3
                           /\ SubSeq(Base(f), Len(Base(f)) - 2, Len(Base(f)))
                                = << ".", "g", "o" >>)

====
